---- MODULE Spec2Model ----
(***************************************************************************)
(* Model of src/emc/ini/inijoint.cc: iniJoint() and loadJoint(), the INI   *)
(* loader that resolves the per-joint parameters and pushes them to the    *)
(* motion controller through the emcJoint* calls.                          *)
(*                                                                         *)
(* One call of iniJoint(joint, filename) is modelled, statement by         *)
(* statement.  The INI document is revealed as it is read: ini[tag] is     *)
(* "unread" until the first lookup of the tag, and keeps the entry that    *)
(* lookup saw from then on.  Doubles are represented by integers; 1e99 is  *)
(* represented by 10^9, which is larger than every literal of the model.   *)
(* trace is the observable history of the call: every lookup on the        *)
(* document and every controller call, in program order.                   *)
(***************************************************************************)
EXTENDS Integers, Sequences, FiniteSets

\* one call of iniJoint
VARIABLES pc, joint, errMask, ini, axes, loc, trace, ljResult, result

\* the history and the result of the call of iniJoint before this one: <<>>
\* when there was none
VARIABLES prev

\* one call of iniGetFloatPrec, iniFormatFloat or iniFormatFloat2: the
\* function applied, its arguments var and val, and what it returned or wrote
VARIABLES fn, fvar, fval, prec, fmt

fmtVars == <<fn, fvar, fval, prec, fmt>>

vars ==
    <<pc, joint, errMask, ini, axes, loc, trace, ljResult, result, prev,
      fmtVars>>

-----------------------------------------------------------------------------
(* Bounds of the model *)

\* at most this many keys of the joint's section are present in the document
MaxPresent == 2

\* the joint arguments iniJoint is called with, and the values [TRAJ]AXES takes
JointArgs == {-1, 0, 1, 2}
AxesVals == {0, 2}

\* well-formed literals of the double, int and bool keys, of UNITS and COMP_FILE
DoubleVals == {2, 5}
IntVals == {3, 4}
BoolVals == {FALSE, TRUE}
UnitsVals == {1, 2}
PathVals == {1, 2}

\* what a controller call can return: 0 is success, anything else a failure
CtrlRets == {0, -1}

-----------------------------------------------------------------------------
(* Program constants *)

EMC_JOINT_LINEAR == 1
EMC_JOINT_ANGULAR == 2
TypeVals == {EMC_JOINT_LINEAR, EMC_JOINT_ANGULAR}

DEFAULT_JOINT_MAX_VELOCITY == 11
DEFAULT_JOINT_MAX_ACCELERATION == 12

emcTrajGetLinearUnits == 7
emcTrajGetAngularUnits == 9

NULL == 0

\* limit = -1e99 and limit = 1e99
MinLimitDefault == -(10^9)
MaxLimitDefault == 10^9

ERR_ALL == {"ERR_TAG_NOT_FOUND", "ERR_SECTION_NOT_FOUND", "ERR_CONVERSION"}

\* sprintf(jointString, "JOINT_%d", joint)
jointString == <<"JOINT_", joint>>
TRAJ == <<"TRAJ">>

JointKeys ==
    {"TYPE", "UNITS", "BACKLASH", "MIN_LIMIT", "MAX_LIMIT", "FERROR",
     "MIN_FERROR", "HOME", "HOME_OFFSET", "HOME_SEARCH_VEL", "HOME_LATCH_VEL",
     "HOME_VEL", "HOME_IS_SHARED", "HOME_USE_INDEX", "HOME_IGNORE_LIMITS",
     "HOME_SEQUENCE", "VOLATILE_HOME", "MAX_VELOCITY", "MAX_ACCELERATION",
     "COMP_FILE_TYPE", "COMP_FILE"}

JointSections == {<<"JOINT_", j>> : j \in {j \in JointArgs : j >= 0}}

Tags == {<<TRAJ, "AXES">>} \cup (JointSections \X JointKeys)

-----------------------------------------------------------------------------
(* The configuration source (IniFile) *)

Unread == [st |-> "unread", v |-> 0]

\* what the document can hold for a key whose well-formed literals are vals
Entries(vals) ==
    {[st |-> "absent", v |-> 0], [st |-> "malformed", v |-> 0]}
        \cup {[st |-> "found", v |-> x] : x \in vals}

NumPresent ==
    Cardinality({t \in JointSections \X JointKeys :
                    ini[t].st \in {"found", "malformed"}})

\* e is the entry of <<section, key>>: fixed once it was read
Holds(section, key, e) ==
    IF ini[<<section, key>>].st = "unread"
    THEN section # TRAJ /\ e.st # "absent" => NumPresent < MaxPresent
    ELSE e = ini[<<section, key>>]

\* Find raises an exception when the lookup's error is enabled in errMask
Throws(e) ==
    \/ e.st = "malformed" /\ "ERR_CONVERSION" \in errMask
    \/ e.st = "absent" /\ "ERR_TAG_NOT_FOUND" \in errMask

\* Find stores the converted value in *result only when the key was found
Find(cur, e) == IF e.st = "found" THEN e.v ELSE cur

\* the unit-aware lookups convert the literal
LinearFactor == 10
AngularFactor == 20
FindLinearUnits(cur, e) == IF e.st = "found" THEN e.v * LinearFactor ELSE cur
FindAngularUnits(cur, e) == IF e.st = "found" THEN e.v * AngularFactor ELSE cur

-----------------------------------------------------------------------------
(* The observable history *)

OpenEvent(ok) ==
    [kind |-> "open", name |-> "Open", section |-> <<>>, args |-> <<>>,
     st |-> IF ok THEN "opened" ELSE "failed", ret |-> 0]

FindEvent(section, key, e) ==
    [kind |-> "find", name |-> key, section |-> section, args |-> <<>>,
     st |-> e.st, ret |-> 0]

CallEvent(name, args, r) ==
    [kind |-> "call", name |-> name, section |-> <<>>, args |-> args,
     st |-> "called", ret |-> r]

\* a local variable of loadJoint is in DOMAIN loc once it was assigned
Assign(f, x, val) ==
    [y \in DOMAIN f \cup {x} |-> IF y = x THEN val ELSE f[y]]

BoolToInt(b) == IF b THEN 1 ELSE 0

\* The document and the controller answer a second call as they answered
\* the first: Open gives the same result, and an operation called with the
\* same arguments returns the same value.
OpenResults ==
    IF prev = <<>> THEN BOOLEAN ELSE {prev[1].trace[1].st = "opened"}

CtrlReturns(name, args) ==
    {r \in CtrlRets :
        prev = <<>> \/
            \A i \in 1..Len(prev[1].trace) :
                (prev[1].trace[i].name = name /\ prev[1].trace[i].args = args)
                    => r = prev[1].trace[i].ret}

-----------------------------------------------------------------------------
Init ==
    /\ pc = "Open"
    /\ joint \in JointArgs
    /\ errMask = ERR_ALL
    /\ ini = [t \in Tags |-> Unread]
    /\ axes = <<>>
    /\ loc = <<>>
    /\ trace = <<>>
    /\ ljResult = <<>>
    /\ result = <<>>
    /\ prev = <<>>
    /\ fn = "none"
    /\ fvar = <<>>
    /\ fval = <<>>
    /\ prec = <<>>
    /\ fmt = <<>>


-----------------------------------------------------------------------------
(* Steps shared by the statements of loadJoint *)

\* mutant: the return statement is missing, control reaches the activation
Abort_FallsThrough ==
    /\ pc' = "emcJointActivate"
    /\ UNCHANGED ljResult

\* mutant: the failure paths return 0
Abort_ReturnsZero ==
    /\ pc' = "loadJoint_return"
    /\ ljResult' = <<0>>

\* return -1 out of loadJoint (from a failed setter or from the catch block)
Abort ==
    /\ pc' = "loadJoint_return"
    /\ ljResult' = <<-1>>

\* a lookup on the document: the entry e is read and the lookup is recorded
Lookup(section, key, e) ==
    /\ Holds(section, key, e)
    /\ ini' = [ini EXCEPT ![<<section, key>>] = e]
    /\ trace' = Append(trace, FindEvent(section, key, e))

\* var = default; jointIniFile->Find(&var, key, jointString);
\* inside the try block: an exception ends loadJoint in the catch block
Resolve(key, vals, var, default, next) ==
    /\ \E e \in Entries(vals) :
          /\ Lookup(jointString, key, e)
          /\ IF Throws(e)
             THEN /\ loc' = Assign(loc, var, default)
                  /\ Abort
             ELSE /\ loc' = Assign(loc, var, Find(default, e))
                  /\ pc' = next
                  /\ UNCHANGED ljResult
    /\ UNCHANGED <<fmtVars, prev, joint, errMask, axes, result>>

\* mutant: the value the setter returns is not tested
Setter_Unchecked(name, args, next) ==
    /\ \E r \in CtrlRets :
          trace' = Append(trace, CallEvent(name, args, r))
    /\ pc' = next
    /\ UNCHANGED <<fmtVars, prev, joint, errMask, ini, axes, loc, ljResult, result>>

\* if (0 != emcJointXxx(joint, ...)) { return -1; }
Setter(name, args, next) ==
    /\ \E r \in CtrlReturns(name, args) :
          /\ trace' = Append(trace, CallEvent(name, args, r))
          /\ IF 0 # r
             THEN Abort
             ELSE /\ pc' = next
                  /\ UNCHANGED ljResult
    /\ UNCHANGED <<fmtVars, prev, joint, errMask, ini, axes, loc, result>>

-----------------------------------------------------------------------------
(* iniJoint, up to the call of loadJoint *)

iniJoint_Open ==
    /\ pc = "Open"
    /\ \E ok \in OpenResults :
          /\ trace' = Append(trace, OpenEvent(ok))
          /\ IF ok = FALSE
             THEN /\ pc' = "done"
                  /\ result' = <<-1>>
             ELSE /\ pc' = "Find_AXES"
                  /\ UNCHANGED result
    /\ UNCHANGED <<fmtVars, prev, joint, errMask, ini, axes, loc, ljResult>>

\* mutant: an absent AXES is defaulted instead of being an error
iniJoint_Find_AXES_Defaulted ==
    /\ pc = "Find_AXES"
    /\ \E e \in Entries(AxesVals) :
          /\ Lookup(TRAJ, "AXES", e)
          /\ IF e.st = "malformed"
             THEN /\ pc' = "done"
                  /\ result' = <<-1>>
                  /\ UNCHANGED axes
             ELSE /\ pc' = "RangeCheck"
                  /\ axes' = <<Find(2, e)>>
                  /\ UNCHANGED result
    /\ UNCHANGED <<fmtVars, prev, joint, errMask, loc, ljResult>>

iniJoint_Find_AXES ==
    /\ pc = "Find_AXES"
    /\ \E e \in Entries(AxesVals) :
          /\ Lookup(TRAJ, "AXES", e)
          /\ IF Throws(e)
             THEN /\ pc' = "done"
                  /\ result' = <<-1>>
                  /\ UNCHANGED axes
             ELSE /\ pc' = "RangeCheck"
                  /\ axes' = IF e.st = "found" THEN <<e.v>> ELSE axes
                  /\ UNCHANGED result
    /\ UNCHANGED <<fmtVars, prev, joint, errMask, loc, ljResult>>

\* mutant: the comparison with the unit count is off by one
iniJoint_RangeCheck_OffByOne ==
    /\ pc = "RangeCheck"
    /\ IF joint < 0 \/ joint > axes[1]
       THEN /\ pc' = "done"
            /\ result' = <<-1>>
       ELSE /\ pc' = "loadJoint"
            /\ UNCHANGED result
    /\ UNCHANGED <<fmtVars, prev, joint, errMask, ini, axes, loc, trace, ljResult>>

iniJoint_RangeCheck ==
    /\ pc = "RangeCheck"
    /\ IF joint < 0 \/ joint >= axes[1]
       THEN /\ pc' = "done"
            /\ result' = <<-1>>
       ELSE /\ pc' = "loadJoint"
            /\ UNCHANGED result
    /\ UNCHANGED <<fmtVars, prev, joint, errMask, ini, axes, loc, trace, ljResult>>

-----------------------------------------------------------------------------
(* loadJoint *)

\* mutant: no exception is enabled, a conversion error is only a return code
loadJoint_EnableExceptions_None ==
    /\ pc = "loadJoint"
    /\ errMask' = {}
    /\ pc' = "Find_TYPE"
    /\ UNCHANGED <<fmtVars, prev, joint, ini, axes, loc, trace, ljResult, result>>

\* mutant: the exception mode is set by the first call only (a static flag)
loadJoint_EnableExceptions_FirstCallOnly ==
    /\ pc = "loadJoint"
    /\ errMask' = IF prev = <<>> THEN {"ERR_CONVERSION"} ELSE errMask
    /\ pc' = "Find_TYPE"
    /\ UNCHANGED <<fmtVars, prev, joint, ini, axes, loc, trace, ljResult, result>>

\* jointIniFile->EnableExceptions(EmcIniFile::ERR_CONVERSION)
loadJoint_EnableExceptions ==
    /\ pc = "loadJoint"
    /\ errMask' = {"ERR_CONVERSION"}
    /\ pc' = "Find_TYPE"
    /\ UNCHANGED <<fmtVars, prev, joint, ini, axes, loc, trace, ljResult, result>>

Find_TYPE ==
    /\ pc = "Find_TYPE"
    /\ Resolve("TYPE", TypeVals, "jointType", EMC_JOINT_LINEAR, "emcJointSetJoint")

emcJointSetJoint ==
    /\ pc = "emcJointSetJoint"
    /\ Setter("emcJointSetJoint", <<joint, loc["jointType"]>>, "Find_UNITS")

\* mutant: the units are resolved as linear units whatever the joint type
Find_UNITS_AlwaysLinear ==
    /\ pc = "Find_UNITS"
    /\ \E e \in Entries(UnitsVals) :
          /\ Lookup(jointString, "UNITS", e)
          /\ IF Throws(e)
             THEN /\ loc' = Assign(loc, "units", emcTrajGetLinearUnits)
                  /\ Abort
             ELSE /\ loc' = Assign(loc, "units",
                                   FindLinearUnits(emcTrajGetLinearUnits, e))
                  /\ pc' = "emcJointSetUnits"
                  /\ UNCHANGED ljResult
    /\ UNCHANGED <<fmtVars, prev, joint, errMask, axes, result>>

Find_UNITS ==
    /\ pc = "Find_UNITS"
    /\ \E e \in Entries(UnitsVals) :
          /\ Lookup(jointString, "UNITS", e)
          /\ LET dflt == IF loc["jointType"] = EMC_JOINT_LINEAR
                         THEN emcTrajGetLinearUnits
                         ELSE emcTrajGetAngularUnits
                 conv == IF loc["jointType"] = EMC_JOINT_LINEAR
                         THEN FindLinearUnits(dflt, e)
                         ELSE FindAngularUnits(dflt, e)
             IN  IF Throws(e)
                 THEN /\ loc' = Assign(loc, "units", dflt)
                      /\ Abort
                 ELSE /\ loc' = Assign(loc, "units", conv)
                      /\ pc' = "emcJointSetUnits"
                      /\ UNCHANGED ljResult
    /\ UNCHANGED <<fmtVars, prev, joint, errMask, axes, result>>

emcJointSetUnits ==
    /\ pc = "emcJointSetUnits"
    /\ Setter("emcJointSetUnits", <<joint, loc["units"]>>, "Find_BACKLASH")

Find_BACKLASH ==
    /\ pc = "Find_BACKLASH"
    /\ Resolve("BACKLASH", DoubleVals, "backlash", 0, "emcJointSetBacklash")

emcJointSetBacklash ==
    /\ pc = "emcJointSetBacklash"
    /\ Setter("emcJointSetBacklash", <<joint, loc["backlash"]>>, "Find_MIN_LIMIT")

Find_MIN_LIMIT ==
    /\ pc = "Find_MIN_LIMIT"
    /\ Resolve("MIN_LIMIT", DoubleVals, "limit", MinLimitDefault,
               "emcJointSetMinPositionLimit")

\* mutant: the minimum limit is sent with the setter of the maximum limit
emcJointSetMinPositionLimit_CallsMax ==
    /\ pc = "emcJointSetMinPositionLimit"
    /\ Setter("emcJointSetMaxPositionLimit", <<joint, loc["limit"]>>,
              "Find_MAX_LIMIT")

emcJointSetMinPositionLimit ==
    /\ pc = "emcJointSetMinPositionLimit"
    /\ Setter("emcJointSetMinPositionLimit", <<joint, loc["limit"]>>,
              "Find_MAX_LIMIT")

\* mutant: limit is not reset to 1e99 before the MAX_LIMIT lookup
Find_MAX_LIMIT_NoReset ==
    /\ pc = "Find_MAX_LIMIT"
    /\ Resolve("MAX_LIMIT", DoubleVals, "limit", loc["limit"],
               "emcJointSetMaxPositionLimit")

Find_MAX_LIMIT ==
    /\ pc = "Find_MAX_LIMIT"
    /\ Resolve("MAX_LIMIT", DoubleVals, "limit", MaxLimitDefault,
               "emcJointSetMaxPositionLimit")

emcJointSetMaxPositionLimit ==
    /\ pc = "emcJointSetMaxPositionLimit"
    /\ Setter("emcJointSetMaxPositionLimit", <<joint, loc["limit"]>>,
              "Find_FERROR")

Find_FERROR ==
    /\ pc = "Find_FERROR"
    /\ Resolve("FERROR", DoubleVals, "ferror", 1, "emcJointSetFerror")

emcJointSetFerror ==
    /\ pc = "emcJointSetFerror"
    /\ Setter("emcJointSetFerror", <<joint, loc["ferror"]>>, "Find_MIN_FERROR")

\* mutant: ferror is reset to its default before the MIN_FERROR lookup
Find_MIN_FERROR_Reset ==
    /\ pc = "Find_MIN_FERROR"
    /\ Resolve("MIN_FERROR", DoubleVals, "ferror", 1, "emcJointSetMinFerror")

\* no default is assigned: ferror keeps the value of the FERROR step
Find_MIN_FERROR ==
    /\ pc = "Find_MIN_FERROR"
    /\ Resolve("MIN_FERROR", DoubleVals, "ferror", loc["ferror"],
               "emcJointSetMinFerror")

emcJointSetMinFerror ==
    /\ pc = "emcJointSetMinFerror"
    /\ Setter("emcJointSetMinFerror", <<joint, loc["ferror"]>>, "Find_HOME")

Find_HOME ==
    /\ pc = "Find_HOME"
    /\ Resolve("HOME", DoubleVals, "home", 0, "Find_HOME_OFFSET")

Find_HOME_OFFSET ==
    /\ pc = "Find_HOME_OFFSET"
    /\ Resolve("HOME_OFFSET", DoubleVals, "offset", 0, "Find_HOME_SEARCH_VEL")

Find_HOME_SEARCH_VEL ==
    /\ pc = "Find_HOME_SEARCH_VEL"
    /\ Resolve("HOME_SEARCH_VEL", DoubleVals, "search_vel", 0,
               "Find_HOME_LATCH_VEL")

Find_HOME_LATCH_VEL ==
    /\ pc = "Find_HOME_LATCH_VEL"
    /\ Resolve("HOME_LATCH_VEL", DoubleVals, "latch_vel", 0, "Find_HOME_VEL")

\* mutant: home_vel defaults to 0 like the other homing speeds
Find_HOME_VEL_ZeroDefault ==
    /\ pc = "Find_HOME_VEL"
    /\ Resolve("HOME_VEL", DoubleVals, "home_vel", 0, "Find_HOME_IS_SHARED")

Find_HOME_VEL ==
    /\ pc = "Find_HOME_VEL"
    /\ Resolve("HOME_VEL", DoubleVals, "home_vel", -1, "Find_HOME_IS_SHARED")

Find_HOME_IS_SHARED ==
    /\ pc = "Find_HOME_IS_SHARED"
    /\ Resolve("HOME_IS_SHARED", BoolVals, "is_shared", FALSE,
               "Find_HOME_USE_INDEX")

Find_HOME_USE_INDEX ==
    /\ pc = "Find_HOME_USE_INDEX"
    /\ Resolve("HOME_USE_INDEX", BoolVals, "use_index", FALSE,
               "Find_HOME_IGNORE_LIMITS")

Find_HOME_IGNORE_LIMITS ==
    /\ pc = "Find_HOME_IGNORE_LIMITS"
    /\ Resolve("HOME_IGNORE_LIMITS", BoolVals, "ignore_limits", FALSE,
               "Find_HOME_SEQUENCE")

Find_HOME_SEQUENCE ==
    /\ pc = "Find_HOME_SEQUENCE"
    /\ Resolve("HOME_SEQUENCE", IntVals, "sequence", -1, "Find_VOLATILE_HOME")

Find_VOLATILE_HOME ==
    /\ pc = "Find_VOLATILE_HOME"
    /\ Resolve("VOLATILE_HOME", IntVals, "volatile_home", 0,
               "emcJointSetHomingParams")

\* mutant: search_vel is passed in the place of home_vel and the reverse
HomingArgs_VelsSwapped ==
    <<joint, loc["home"], loc["offset"], loc["search_vel"], loc["home_vel"],
      loc["latch_vel"], BoolToInt(loc["use_index"]),
      BoolToInt(loc["ignore_limits"]), BoolToInt(loc["is_shared"]),
      loc["sequence"], loc["volatile_home"]>>

HomingArgs ==
    <<joint, loc["home"], loc["offset"], loc["home_vel"], loc["search_vel"],
      loc["latch_vel"], BoolToInt(loc["use_index"]),
      BoolToInt(loc["ignore_limits"]), BoolToInt(loc["is_shared"]),
      loc["sequence"], loc["volatile_home"]>>

emcJointSetHomingParams ==
    /\ pc = "emcJointSetHomingParams"
    /\ Setter("emcJointSetHomingParams", HomingArgs, "Find_MAX_VELOCITY")

Find_MAX_VELOCITY ==
    /\ pc = "Find_MAX_VELOCITY"
    /\ Resolve("MAX_VELOCITY", DoubleVals, "maxVelocity",
               DEFAULT_JOINT_MAX_VELOCITY, "emcJointSetMaxVelocity")

emcJointSetMaxVelocity ==
    /\ pc = "emcJointSetMaxVelocity"
    /\ Setter("emcJointSetMaxVelocity", <<joint, loc["maxVelocity"]>>,
              "Find_MAX_ACCELERATION")

Find_MAX_ACCELERATION ==
    /\ pc = "Find_MAX_ACCELERATION"
    /\ Resolve("MAX_ACCELERATION", DoubleVals, "maxAcceleration",
               DEFAULT_JOINT_MAX_ACCELERATION, "emcJointSetMaxAcceleration")

emcJointSetMaxAcceleration ==
    /\ pc = "emcJointSetMaxAcceleration"
    /\ Setter("emcJointSetMaxAcceleration", <<joint, loc["maxAcceleration"]>>,
              "Find_COMP_FILE_TYPE")

Find_COMP_FILE_TYPE ==
    /\ pc = "Find_COMP_FILE_TYPE"
    /\ Resolve("COMP_FILE_TYPE", IntVals, "comp_file_type", 0, "Find_COMP_FILE")

\* mutant: the result of the COMP_FILE lookup is not tested against NULL
Find_COMP_FILE_NoNullTest ==
    /\ pc = "Find_COMP_FILE"
    /\ \E e \in {x \in Entries(PathVals) : x.st # "malformed"} :
          /\ Lookup(jointString, "COMP_FILE", e)
          /\ loc' = Assign(loc, "inistring", Find(NULL, e))
          /\ pc' = "emcJointLoadComp"
    /\ UNCHANGED <<fmtVars, prev, joint, errMask, axes, ljResult, result>>

\* the string lookup converts nothing: the key is there or it is not
\* if (NULL != (inistring = jointIniFile->Find("COMP_FILE", jointString)))
Find_COMP_FILE ==
    /\ pc = "Find_COMP_FILE"
    /\ \E e \in {x \in Entries(PathVals) : x.st # "malformed"} :
          /\ Lookup(jointString, "COMP_FILE", e)
          /\ loc' = Assign(loc, "inistring", Find(NULL, e))
          /\ pc' = IF NULL # Find(NULL, e)
                   THEN "emcJointLoadComp"
                   ELSE "emcJointActivate"
    /\ UNCHANGED <<fmtVars, prev, joint, errMask, axes, ljResult, result>>

emcJointLoadComp ==
    /\ pc = "emcJointLoadComp"
    /\ Setter("emcJointLoadComp",
              <<joint, loc["inistring"], loc["comp_file_type"]>>,
              "emcJointActivate")

\* emcJointActivate(joint); return 0;   the value returned is not looked at
emcJointActivate ==
    /\ pc = "emcJointActivate"
    /\ \E r \in CtrlReturns("emcJointActivate", <<joint>>) :
          trace' = Append(trace, CallEvent("emcJointActivate", <<joint>>, r))
    /\ ljResult' = <<0>>
    /\ pc' = "loadJoint_return"
    /\ UNCHANGED <<fmtVars, prev, joint, errMask, ini, axes, loc, result>>

\* mutant: a failed load is rolled back by deactivating the joint
iniJoint_Return_Deactivates ==
    /\ pc = "loadJoint_return"
    /\ result' = IF 0 # ljResult[1] THEN <<-1>> ELSE <<0>>
    /\ trace' = IF 0 # ljResult[1]
                THEN Append(trace, CallEvent("emcJointDeactivate", <<joint>>, 0))
                ELSE trace
    /\ pc' = "done"
    /\ UNCHANGED <<fmtVars, prev, joint, errMask, ini, axes, loc, ljResult>>

\* if (0 != loadJoint(joint, &jointIniFile)) { return -1; }  return 0;
iniJoint_Return ==
    /\ pc = "loadJoint_return"
    /\ result' = IF 0 # ljResult[1] THEN <<-1>> ELSE <<0>>
    /\ pc' = "done"
    /\ UNCHANGED <<fmtVars, prev, joint, errMask, ini, axes, loc, trace, ljResult>>

-----------------------------------------------------------------------------
Next ==
    \/ iniJoint_Open
    \/ iniJoint_Find_AXES
    \/ iniJoint_RangeCheck
    \/ loadJoint_EnableExceptions
    \/ Find_TYPE
    \/ emcJointSetJoint
    \/ Find_UNITS
    \/ emcJointSetUnits
    \/ Find_BACKLASH
    \/ emcJointSetBacklash
    \/ Find_MIN_LIMIT
    \/ emcJointSetMinPositionLimit
    \/ Find_MAX_LIMIT
    \/ emcJointSetMaxPositionLimit
    \/ Find_FERROR
    \/ emcJointSetFerror
    \/ Find_MIN_FERROR
    \/ emcJointSetMinFerror
    \/ Find_HOME
    \/ Find_HOME_OFFSET
    \/ Find_HOME_SEARCH_VEL
    \/ Find_HOME_LATCH_VEL
    \/ Find_HOME_VEL
    \/ Find_HOME_IS_SHARED
    \/ Find_HOME_USE_INDEX
    \/ Find_HOME_IGNORE_LIMITS
    \/ Find_HOME_SEQUENCE
    \/ Find_VOLATILE_HOME
    \/ emcJointSetHomingParams
    \/ Find_MAX_VELOCITY
    \/ emcJointSetMaxVelocity
    \/ Find_MAX_ACCELERATION
    \/ emcJointSetMaxAcceleration
    \/ Find_COMP_FILE_TYPE
    \/ Find_COMP_FILE
    \/ emcJointLoadComp
    \/ emcJointActivate
    \/ iniJoint_Return

Spec == Init /\ [][Next]_vars

-----------------------------------------------------------------------------
(* Reading the history *)

Last == Len(trace)

\* positions of the controller calls, of the calls of one operation, and of
\* the lookups in the joint's section
CallIdx == {i \in 1..Len(trace) : trace[i].kind = "call"}
Idx(name) == {i \in 1..Len(trace) : trace[i].name = name}
JointFindIdx ==
    {i \in 1..Len(trace) : trace[i].kind = "find" /\ trace[i].section # TRAJ}

Called(name) == Idx(name) # {}

\* the controller calls in order, each as <<operation, arguments>>
Calls == SelectSeq(trace, LAMBDA ev : ev.kind = "call")
CallLog == [i \in 1..Len(Calls) |-> <<Calls[i].name, Calls[i].args>>]

\* the document's entry for a key of the joint's section
Doc(key) == ini[<<jointString, key>>]

\* loadJoint has returned
Returned == pc \in {"loadJoint_return", "done"}

SetterNames ==
    {"emcJointSetJoint", "emcJointSetUnits", "emcJointSetBacklash",
     "emcJointSetMinPositionLimit", "emcJointSetMaxPositionLimit",
     "emcJointSetFerror", "emcJointSetMinFerror", "emcJointSetHomingParams",
     "emcJointSetMaxVelocity", "emcJointSetMaxAcceleration",
     "emcJointLoadComp"}

-----------------------------------------------------------------------------
(* C1 *)

\* C1: emcJointActivate is invoked only if every earlier lookup converted
\* (or was absent) and every earlier setter returned 0, and it is the last
\* controller operation of the call: nothing is looked up or called after it.
C1_ActivateOnlyAfterSuccess ==
    \A i \in Idx("emcJointActivate") :
        /\ i = Last
        /\ \A k \in 1..(i - 1) :
              /\ trace[k].kind = "find" => trace[k].st # "malformed"
              /\ trace[k].kind = "call" => trace[k].ret = 0
              /\ trace[k].kind = "open" => trace[k].st = "opened"
        /\ SetterNames \ {"emcJointLoadComp"} \subseteq
              {trace[k].name : k \in 1..(i - 1)}

\* a load with two keys present reached the activation
C1_Witness ==
    /\ pc = "done"
    /\ Called("emcJointActivate")
    /\ NumPresent = 2

-----------------------------------------------------------------------------
(* C2 *)

\* C2: a setter that returns a failure ends loadJoint at once with -1:
\* it is the last event of the call (no lookup, no setter, no activation
\* follows) and iniJoint returns -1.
C2_SetterFailureAborts ==
    \A i \in CallIdx :
        (trace[i].name \in SetterNames /\ trace[i].ret # 0) =>
            /\ i = Last
            /\ Returned
            /\ ljResult = <<-1>>
            /\ pc = "done" => result = <<-1>>

\* the load was ended by the failure of the compensation setter
C2_Witness ==
    /\ pc = "done"
    /\ Last > 0
    /\ trace[Last].name = "emcJointLoadComp"
    /\ trace[Last].ret # 0
    /\ result = <<-1>>

-----------------------------------------------------------------------------
(* C3 *)

\* C3: a malformed value of a key of the joint's section ends loadJoint at
\* once with -1, whatever succeeded before: the failed lookup is the last
\* event of the call, so neither the setter of that field nor a later setter
\* nor the activation is invoked.
C3_MalformedAborts ==
    \A i \in JointFindIdx :
        trace[i].st = "malformed" =>
            /\ i = Last
            /\ Returned
            /\ ljResult = <<-1>>
            /\ pc = "done" => result = <<-1>>
            /\ ~Called("emcJointActivate")

\* the last typed lookup was malformed after ten setters and a found key
C3_Witness ==
    /\ pc = "done"
    /\ Last > 0
    /\ trace[Last].name = "COMP_FILE_TYPE"
    /\ trace[Last].st = "malformed"
    /\ Called("emcJointSetMaxAcceleration")
    /\ Doc("BACKLASH").st = "found"

-----------------------------------------------------------------------------
(* C4 *)

\* the index is outside [0, AXES)
OutOfRange == axes # <<>> /\ (joint < 0 \/ joint >= axes[1])

\* C4: with an index that is negative, equal to or above the unit count,
\* iniJoint fails: loadJoint is not entered, no controller operation is
\* called and no key of a joint section is looked up.
C4_OutOfRangeFails ==
    OutOfRange =>
        /\ pc \in {"RangeCheck", "done"}
        /\ CallIdx = {}
        /\ JointFindIdx = {}
        /\ \A t \in JointSections \X JointKeys : ini[t] = Unread
        /\ pc = "done" => result = <<-1>>

\* the index equals the unit count and iniJoint has returned
C4_Witness ==
    /\ pc = "done"
    /\ axes = <<2>>
    /\ joint = 2
    /\ result = <<-1>>

-----------------------------------------------------------------------------
(* C5 *)

\* what the controller receives for a section without keys
DefaultCalls ==
    << <<"emcJointSetJoint", <<joint, EMC_JOINT_LINEAR>> >>,
       <<"emcJointSetUnits", <<joint, emcTrajGetLinearUnits>> >>,
       <<"emcJointSetBacklash", <<joint, 0>> >>,
       <<"emcJointSetMinPositionLimit", <<joint, MinLimitDefault>> >>,
       <<"emcJointSetMaxPositionLimit", <<joint, MaxLimitDefault>> >>,
       <<"emcJointSetFerror", <<joint, 1>> >>,
       <<"emcJointSetMinFerror", <<joint, 1>> >>,
       <<"emcJointSetHomingParams", <<joint, 0, 0, -1, 0, 0, 0, 0, 0, -1, 0>> >>,
       <<"emcJointSetMaxVelocity", <<joint, DEFAULT_JOINT_MAX_VELOCITY>> >>,
       <<"emcJointSetMaxAcceleration",
         <<joint, DEFAULT_JOINT_MAX_ACCELERATION>> >>,
       <<"emcJointActivate", <<joint>> >> >>

\* loadJoint ran on a section in which every key it looked up was absent,
\* and every setter it called returned 0
AllAbsentAllAccepted ==
    /\ Called("TYPE")
    /\ \A i \in JointFindIdx : trace[i].st = "absent"
    /\ \A i \in CallIdx : trace[i].name \in SetterNames => trace[i].ret = 0

\* C5: for a valid index and a section without keys, all setters succeeding,
\* the load succeeds and the controller receives exactly the calls of
\* DefaultCalls, the activation last and no compensation; and an absent key
\* never ends the load.
C5_DefaultsApplied ==
    /\ (pc = "done" /\ AllAbsentAllAccepted) =>
          /\ result = <<0>>
          /\ CallLog = DefaultCalls
    /\ \A i \in JointFindIdx :
          (trace[i].st = "absent" /\ i = Last) => ~Returned

\* joint 1 of 2 was loaded from a section without keys
C5_Witness ==
    /\ pc = "done"
    /\ joint = 1
    /\ AllAbsentAllAccepted
    /\ result = <<0>>
    /\ Len(CallLog) = 11

-----------------------------------------------------------------------------
(* C6 *)

IsPrefix(s, t) == Len(s) <= Len(t) /\ \A i \in 1..Len(s) : s[i] = t[i]

\* the COMP_FILE lookup found a path
PathPresent == \E i \in Idx("COMP_FILE") : trace[i].st = "found"

\* the fixed order of the controller operations
CallOrder ==
    <<"emcJointSetJoint", "emcJointSetUnits", "emcJointSetBacklash",
      "emcJointSetMinPositionLimit", "emcJointSetMaxPositionLimit",
      "emcJointSetFerror", "emcJointSetMinFerror", "emcJointSetHomingParams",
      "emcJointSetMaxVelocity", "emcJointSetMaxAcceleration">>
        \o (IF PathPresent THEN <<"emcJointLoadComp">> ELSE <<>>)
        \o <<"emcJointActivate">>

\* the fixed order of the lookups and the controller operations
ProgramOrder ==
    <<"Open", "AXES",
      "TYPE", "emcJointSetJoint",
      "UNITS", "emcJointSetUnits",
      "BACKLASH", "emcJointSetBacklash",
      "MIN_LIMIT", "emcJointSetMinPositionLimit",
      "MAX_LIMIT", "emcJointSetMaxPositionLimit",
      "FERROR", "emcJointSetFerror",
      "MIN_FERROR", "emcJointSetMinFerror",
      "HOME", "HOME_OFFSET", "HOME_SEARCH_VEL", "HOME_LATCH_VEL", "HOME_VEL",
      "HOME_IS_SHARED", "HOME_USE_INDEX", "HOME_IGNORE_LIMITS",
      "HOME_SEQUENCE", "VOLATILE_HOME", "emcJointSetHomingParams",
      "MAX_VELOCITY", "emcJointSetMaxVelocity",
      "MAX_ACCELERATION", "emcJointSetMaxAcceleration",
      "COMP_FILE_TYPE", "COMP_FILE">>
        \o (IF PathPresent THEN <<"emcJointLoadComp">> ELSE <<>>)
        \o <<"emcJointActivate">>

CallNames == [i \in 1..Len(Calls) |-> Calls[i].name]
TraceNames == [i \in 1..Len(trace) |-> trace[i].name]

\* the operations called are a prefix of the fixed order, each at most once
CallsInFixedOrder ==
    /\ IsPrefix(CallNames, CallOrder)
    /\ \A i, k \in CallIdx : trace[i].name = trace[k].name => i = k

\* C6 as stated: the calls are a prefix of the fixed order, each operation at
\* most once, and every value is pushed as soon as it is resolved: the event
\* after a lookup in the joint's section is the controller call that pushes
\* it, never the lookup of the next field.
C6_PushedBeforeNextLookup ==
    /\ CallsInFixedOrder
    /\ \A i \in JointFindIdx : i < Last => trace[i + 1].kind = "call"

\* C6 amended: the calls are a prefix of the fixed order, each operation at
\* most once, and the lookups and calls together are a prefix of the program
\* order: the value of a single-key field is pushed right after its lookup,
\* the ten homing keys are all looked up before the one homing call, and
\* COMP_FILE_TYPE is looked up before COMP_FILE and pushed only by
\* emcJointLoadComp.
C6_FixedProgramOrder ==
    /\ CallsInFixedOrder
    /\ IsPrefix(TraceNames, ProgramOrder)

\* a complete load with a homing key and a compensation file
C6_Witness ==
    /\ pc = "done"
    /\ Called("emcJointActivate")
    /\ Called("emcJointLoadComp")
    /\ Doc("HOME_OFFSET").st = "found"

-----------------------------------------------------------------------------
(* C7 *)

\* the value resolved for a double key with the given default
Resolved(key, default) ==
    IF Doc(key).st = "found" THEN Doc(key).v ELSE default

\* C7: emcJointSetFerror receives the FERROR value, 1 when FERROR is absent;
\* emcJointSetMinFerror receives the MIN_FERROR value when it is present, and
\* the value emcJointSetFerror received when MIN_FERROR is absent.
C7_MinFerrorInheritsFerror ==
    /\ \A i \in Idx("emcJointSetFerror") :
          trace[i].args = <<joint, Resolved("FERROR", 1)>>
    /\ \A i \in Idx("emcJointSetMinFerror") :
          /\ Called("emcJointSetFerror")
          /\ Doc("MIN_FERROR").st = "absent" =>
                \A k \in Idx("emcJointSetFerror") : trace[i].args = trace[k].args
          /\ Doc("MIN_FERROR").st = "found" =>
                trace[i].args = <<joint, Doc("MIN_FERROR").v>>

\* FERROR is 5, MIN_FERROR is absent and emcJointSetMinFerror received 5
C7_Witness ==
    /\ Called("emcJointSetMinFerror")
    /\ Doc("FERROR").st = "found"
    /\ Doc("FERROR").v = 5
    /\ Doc("MIN_FERROR").st = "absent"
    /\ \A i \in Idx("emcJointSetMinFerror") : trace[i].args = <<joint, 5>>

-----------------------------------------------------------------------------
(* C8 *)

\* the joint type the TYPE lookup resolves
ResolvedType == Resolved("TYPE", EMC_JOINT_LINEAR)

\* C8: TYPE is looked up and emcJointSetJoint is called with the resolved
\* type before UNITS is looked up; emcJointSetUnits receives, when UNITS is
\* absent, the trajectory's linear units for a LINEAR joint and its angular
\* units for an ANGULAR one, and when UNITS is present the result of the
\* linear lookup for a LINEAR joint and of the angular lookup for an ANGULAR
\* one.
C8_UnitsFollowJointType ==
    /\ \A i \in Idx("UNITS") :
          \E k \in Idx("emcJointSetJoint") :
              /\ k < i
              /\ trace[k].args = <<joint, ResolvedType>>
              /\ \E t \in Idx("TYPE") : t < k
    /\ \A i \in Idx("emcJointSetUnits") :
          trace[i].args =
              <<joint,
                IF ResolvedType = EMC_JOINT_LINEAR
                THEN FindLinearUnits(emcTrajGetLinearUnits, Doc("UNITS"))
                ELSE FindAngularUnits(emcTrajGetAngularUnits, Doc("UNITS"))>>

\* an ANGULAR joint without UNITS received the trajectory's angular units
C8_Witness ==
    /\ Called("emcJointSetUnits")
    /\ Doc("TYPE").st = "found"
    /\ Doc("TYPE").v = EMC_JOINT_ANGULAR
    /\ Doc("UNITS").st = "absent"
    /\ \A i \in Idx("emcJointSetUnits") :
          trace[i].args = <<joint, emcTrajGetAngularUnits>>

-----------------------------------------------------------------------------
(* C9 *)

\* C9: iniJoint returns success only if every controller operation it
\* invoked, emcJointActivate included, returned success.
C9_AnyControllerFailureFails ==
    (pc = "done" /\ result = <<0>>) => \A i \in CallIdx : trace[i].ret = 0

-----------------------------------------------------------------------------
(* C10 *)

\* C10: when COMP_FILE is absent emcJointLoadComp is not called, the load
\* goes on to the activation and succeeds; when it is present
\* emcJointLoadComp is called, once, right after the lookup, with the path
\* and the resolved COMP_FILE_TYPE (0 when absent), after
\* emcJointSetMaxAcceleration and before emcJointActivate, and its failure
\* ends the load with -1 and without the activation.
C10_CompensationOptional ==
    /\ Called("emcJointLoadComp") => PathPresent
    /\ \A i \in Idx("COMP_FILE") :
          /\ trace[i].st = "absent" =>
                /\ ~Called("emcJointLoadComp")
                /\ i = Last => pc = "emcJointActivate"
                /\ i < Last => trace[i + 1].name = "emcJointActivate"
                /\ ljResult # <<-1>>
                /\ pc = "done" => result = <<0>>
          /\ trace[i].st = "found" =>
                /\ i = Last => pc = "emcJointLoadComp"
                /\ i < Last =>
                      /\ trace[i + 1].name = "emcJointLoadComp"
                      /\ trace[i + 1].args =
                            <<joint, Doc("COMP_FILE").v,
                              Resolved("COMP_FILE_TYPE", 0)>>
                      /\ Cardinality(Idx("emcJointLoadComp")) = 1
                      /\ \E a \in Idx("emcJointSetMaxAcceleration") : a < i
                      /\ \A v \in Idx("emcJointActivate") : v = i + 2
                      /\ trace[i + 1].ret # 0 =>
                            /\ ~Called("emcJointActivate")
                            /\ ljResult = <<-1>>
                            /\ pc = "done" => result = <<-1>>
                      /\ (trace[i + 1].ret = 0 /\ Returned) =>
                            /\ Called("emcJointActivate")
                            /\ ljResult = <<0>>

\* a compensation file of type 4 was loaded and the joint activated
C10_Witness ==
    /\ pc = "done"
    /\ result = <<0>>
    /\ Doc("COMP_FILE_TYPE").st = "found"
    /\ Doc("COMP_FILE_TYPE").v = 4
    /\ \E i \in Idx("emcJointLoadComp") :
          /\ trace[i].args = <<joint, Doc("COMP_FILE").v, 4>>
          /\ trace[i + 1].name = "emcJointActivate"

-----------------------------------------------------------------------------
(* C11 *)

\* loadJoint was entered
Delegated == JointFindIdx # {} \/ CallIdx # {} \/ ljResult # <<>>

\* the document opened, AXES was read and the index is inside [0, AXES)
Admitted ==
    /\ Len(trace) >= 2
    /\ trace[1].st = "opened"
    /\ trace[2].name = "AXES"
    /\ trace[2].st = "found"
    /\ axes # <<>>
    /\ 0 <= joint
    /\ joint < axes[1]

\* C11: iniJoint fails before any lookup when the document cannot be opened,
\* and fails before the range check, any joint-section lookup and any
\* controller call when AXES is absent or malformed (it is never defaulted);
\* loadJoint is entered only when the document opened, AXES was read and
\* 0 <= joint < AXES, and iniJoint then returns 0 exactly when loadJoint
\* returned 0.
C11_EntryChecksBeforeDelegation ==
    /\ \A i \in Idx("Open") :
          /\ i = 1
          /\ trace[i].st = "failed" =>
                /\ Last = 1
                /\ pc = "done"
                /\ result = <<-1>>
    /\ \A i \in Idx("AXES") :
          trace[i].st \in {"absent", "malformed"} =>
                /\ i = Last
                /\ pc = "done"
                /\ result = <<-1>>
                /\ axes = <<>>
                /\ ~Delegated
    /\ (Delegated \/ pc = "loadJoint") => Admitted
    /\ (Admitted /\ pc = "done") =>
          /\ ljResult # <<>>
          /\ result = <<0>> <=> ljResult = <<0>>

\* AXES is absent and iniJoint returned -1 right after the lookup
C11_Witness ==
    /\ pc = "done"
    /\ Last = 2
    /\ trace[2].name = "AXES"
    /\ trace[2].st = "absent"
    /\ result = <<-1>>

-----------------------------------------------------------------------------
(* C15 *)

ResolvedBool(key) ==
    IF Doc(key).st = "found" THEN BoolToInt(Doc(key).v) ELSE 0

\* the arguments a setter is due, from the document and the defaults
ExpectedArgs(name) ==
    CASE name = "emcJointSetJoint" -> <<joint, ResolvedType>>
      [] name = "emcJointSetUnits" ->
            <<joint,
              IF ResolvedType = EMC_JOINT_LINEAR
              THEN FindLinearUnits(emcTrajGetLinearUnits, Doc("UNITS"))
              ELSE FindAngularUnits(emcTrajGetAngularUnits, Doc("UNITS"))>>
      [] name = "emcJointSetBacklash" -> <<joint, Resolved("BACKLASH", 0)>>
      [] name = "emcJointSetMinPositionLimit" ->
            <<joint, Resolved("MIN_LIMIT", MinLimitDefault)>>
      [] name = "emcJointSetMaxPositionLimit" ->
            <<joint, Resolved("MAX_LIMIT", MaxLimitDefault)>>
      [] name = "emcJointSetFerror" -> <<joint, Resolved("FERROR", 1)>>
      [] name = "emcJointSetMinFerror" ->
            <<joint, Resolved("MIN_FERROR", Resolved("FERROR", 1))>>
      [] name = "emcJointSetHomingParams" ->
            <<joint, Resolved("HOME", 0), Resolved("HOME_OFFSET", 0),
              Resolved("HOME_VEL", -1), Resolved("HOME_SEARCH_VEL", 0),
              Resolved("HOME_LATCH_VEL", 0), ResolvedBool("HOME_USE_INDEX"),
              ResolvedBool("HOME_IGNORE_LIMITS"),
              ResolvedBool("HOME_IS_SHARED"), Resolved("HOME_SEQUENCE", -1),
              Resolved("VOLATILE_HOME", 0)>>
      [] name = "emcJointSetMaxVelocity" ->
            <<joint, Resolved("MAX_VELOCITY", DEFAULT_JOINT_MAX_VELOCITY)>>
      [] name = "emcJointSetMaxAcceleration" ->
            <<joint,
              Resolved("MAX_ACCELERATION", DEFAULT_JOINT_MAX_ACCELERATION)>>
      [] name = "emcJointLoadComp" ->
            <<joint, Resolved("COMP_FILE", NULL),
              Resolved("COMP_FILE_TYPE", 0)>>
      [] OTHER -> <<joint>>

\* loadJoint returned -1
Aborted == Returned /\ ljResult = <<-1>>

\* C15: when a load has failed at step k (a malformed value or a setter
\* failure), the failing step is the last event of the call, also after
\* iniJoint returned: no compensating or deactivating call is made; the
\* events before it are exactly the steps preceding k in the program order,
\* so the setters applied are exactly those preceding step k, and each was
\* called with its resolved value and returned 0.
C15_NoRollback ==
    Aborted =>
        /\ Last > 2
        /\ \/ trace[Last].kind = "find" /\ trace[Last].st = "malformed"
           \/ trace[Last].kind = "call" /\ trace[Last].ret # 0
        /\ IsPrefix(TraceNames, ProgramOrder)
        /\ \A i \in CallIdx :
              /\ trace[i].name \in SetterNames
              /\ trace[i].args = ExpectedArgs(trace[i].name)
              /\ i < Last => trace[i].ret = 0
        /\ \A p \in 1..(Last - 1) :
              ProgramOrder[p] \in SetterNames =>
                  /\ trace[p].kind = "call"
                  /\ trace[p].name = ProgramOrder[p]

\* the load failed at MAX_VELOCITY after eight setters were applied, one of
\* them with a value of the document, and iniJoint has returned
C15_Witness ==
    /\ pc = "done"
    /\ Aborted
    /\ trace[Last].name = "MAX_VELOCITY"
    /\ Len(Calls) = 8
    /\ Doc("BACKLASH").st = "found"
    /\ \E i \in Idx("emcJointSetBacklash") :
          trace[i].args = <<joint, Doc("BACKLASH").v>>

-----------------------------------------------------------------------------
(* C16 *)

HomingKeys ==
    {"HOME", "HOME_OFFSET", "HOME_SEARCH_VEL", "HOME_LATCH_VEL", "HOME_VEL",
     "HOME_IS_SHARED", "HOME_USE_INDEX", "HOME_IGNORE_LIMITS",
     "HOME_SEQUENCE", "VOLATILE_HOME"}

\* C16: the ten homing keys are all looked up, none malformed, directly
\* before emcJointSetHomingParams; the call is issued once per load that
\* reaches it, with (home, offset, homeVel, searchVel, latchVel, useIndex,
\* ignoreLimits, isShared, sequence, volatileHome), each the value of its own
\* key or its own default; a malformed homing key means the call is not made.
C16_HomingResolvedThenOneCall ==
    /\ \A i \in Idx("emcJointSetHomingParams") :
          /\ i > 10
          /\ {trace[k].name : k \in (i - 10)..(i - 1)} = HomingKeys
          /\ \A k \in (i - 10)..(i - 1) :
                trace[k].kind = "find" /\ trace[k].st # "malformed"
          /\ trace[i].args =
                <<joint, Resolved("HOME", 0), Resolved("HOME_OFFSET", 0),
                  Resolved("HOME_VEL", -1), Resolved("HOME_SEARCH_VEL", 0),
                  Resolved("HOME_LATCH_VEL", 0),
                  ResolvedBool("HOME_USE_INDEX"),
                  ResolvedBool("HOME_IGNORE_LIMITS"),
                  ResolvedBool("HOME_IS_SHARED"),
                  Resolved("HOME_SEQUENCE", -1), Resolved("VOLATILE_HOME", 0)>>
    /\ Cardinality(Idx("emcJointSetHomingParams")) <= 1
    /\ Called("MAX_VELOCITY") => Called("emcJointSetHomingParams")
    /\ pc = "emcJointSetHomingParams" =>
          /\ ~Called("emcJointSetHomingParams")
          /\ \A key \in HomingKeys : Called(key)
    /\ \A i \in JointFindIdx :
          (trace[i].name \in HomingKeys /\ trace[i].st = "malformed") =>
              ~Called("emcJointSetHomingParams")

\* HOME_VEL is 5 and HOME_USE_INDEX is true: the call carries them in the
\* third and sixth place after the joint, the other places their defaults
C16_Witness ==
    /\ Called("emcJointSetHomingParams")
    /\ Doc("HOME_VEL").st = "found"
    /\ Doc("HOME_VEL").v = 5
    /\ Doc("HOME_USE_INDEX").st = "found"
    /\ Doc("HOME_USE_INDEX").v = TRUE
    /\ \E i \in Idx("emcJointSetHomingParams") :
          trace[i].args = <<joint, 0, 0, 5, 0, 0, 1, 0, 0, -1, 0>>

-----------------------------------------------------------------------------
(* C17 *)

\* C17: the two limits are resolved independently although both go through
\* the variable limit: emcJointSetMinPositionLimit receives the MIN_LIMIT
\* value, -1e99 when MIN_LIMIT is absent; emcJointSetMaxPositionLimit
\* receives the MAX_LIMIT value, and 1e99 when MAX_LIMIT is absent, whatever
\* MIN_LIMIT was.
C17_LimitsIndependent ==
    /\ \A i \in Idx("emcJointSetMinPositionLimit") :
          /\ Doc("MIN_LIMIT").st = "absent" =>
                trace[i].args = <<joint, MinLimitDefault>>
          /\ Doc("MIN_LIMIT").st = "found" =>
                trace[i].args = <<joint, Doc("MIN_LIMIT").v>>
    /\ \A i \in Idx("emcJointSetMaxPositionLimit") :
          /\ Doc("MAX_LIMIT").st = "absent" =>
                trace[i].args = <<joint, MaxLimitDefault>>
          /\ Doc("MAX_LIMIT").st = "found" =>
                trace[i].args = <<joint, Doc("MAX_LIMIT").v>>
          /\ Doc("MAX_LIMIT").st \in {"absent", "found"}

\* MIN_LIMIT is 5, MAX_LIMIT is absent and the maximum limit sent is 1e99
C17_Witness ==
    /\ Called("emcJointSetMaxPositionLimit")
    /\ Doc("MIN_LIMIT").st = "found"
    /\ Doc("MIN_LIMIT").v = 5
    /\ Doc("MAX_LIMIT").st = "absent"
    /\ \E i \in Idx("emcJointSetMinPositionLimit") :
          trace[i].args = <<joint, 5>>
    /\ \E i \in Idx("emcJointSetMaxPositionLimit") :
          trace[i].args = <<joint, MaxLimitDefault>>

-----------------------------------------------------------------------------
(* C18 *)

\* C18: loadJoint returns 0 if and only if emcJointActivate was invoked
\* during the call: a failure path returns -1 without the activation, a path
\* that reaches the activation returns 0 whatever the activation returned;
\* iniJoint returns only 0 or -1.
C18_SuccessIffActivated ==
    /\ ljResult # <<>> =>
          /\ ljResult \in {<<0>>, <<-1>>}
          /\ ljResult = <<0>> <=> Called("emcJointActivate")
    /\ Called("emcJointActivate") => ljResult = <<0>>
    /\ result # <<>> => result \in {<<0>>, <<-1>>}
    /\ pc = "done" <=> result # <<>>
    /\ (pc = "done" /\ ljResult # <<>>) => result = ljResult

\* the activation was reached, it reported a failure, and iniJoint returned 0
C18_Witness ==
    /\ pc = "done"
    /\ result = <<0>>
    /\ trace[Last].name = "emcJointActivate"
    /\ trace[Last].ret # 0

-----------------------------------------------------------------------------
(* iniGetFloatPrec, iniFormatFloat, iniFormatFloat2                         *)
(* A C string is the sequence of its characters; the terminating 0 is the   *)
(* position after the last one.                                             *)

\* the literals and variable names the functions are applied to: every
\* string of at most MaxLen characters of Alphabet, and the literals below
MaxLen == 4
Alphabet == {"1", "7", ".", " ", "x"}

RECURSIVE StringsUpTo(_)
StringsUpTo(n) ==
    IF n = 0
    THEN {<<>>}
    ELSE LET S == StringsUpTo(n - 1)
         IN  S \cup {Append(s, c) : s \in {t \in S : Len(t) = n - 1},
                                    c \in Alphabet}

Lit_1_2345 == <<"1", ".", "2", "3", "4", "5">>
Lit_7 == <<"7">>
Lit_0_12 == <<"0", ".", "1", "2">>
Lit_1_23_9_1 == <<"1", ".", "2", "3", " ", "9", ".", "1">>
Lit_1_2_9_12345 == <<"1", ".", "2", " ", "9", ".", "1", "2", "3", "4", "5">>

Literals ==
    StringsUpTo(MaxLen)
        \cup {Lit_1_2345, Lit_7, Lit_0_12, Lit_1_23_9_1, Lit_1_2_9_12345}

FOO == <<"F", "O", "O">>
BAR == <<"B", "A", "R">>
VarNames == {FOO, BAR, <<>>}

INIFILE_MIN_FLOAT_PRECISION == 3

isdigit(c) == c \in {"0", "1", "2", "3", "4", "5", "6", "7", "8", "9"}

\* find '.', return min precision if no decimal point:
\* the position of the first '.' at or after ptr, 0 when the end is reached
RECURSIVE FindPoint(_, _)
FindPoint(str, ptr) ==
    IF ptr > Len(str)
    THEN 0
    ELSE IF str[ptr] = "."
         THEN ptr
         ELSE FindPoint(str, ptr + 1)

\* mutant: the characters after the point are counted without isdigit()
RECURSIVE CountDigits_AnyChar(_, _, _)
CountDigits_AnyChar(str, ptr, n) ==
    IF ptr > Len(str)
    THEN n
    ELSE CountDigits_AnyChar(str, ptr + 1, n + 1)

\* count number of digits until whitespace or end or non-digit
RECURSIVE CountDigits(_, _, _)
CountDigits(str, ptr, n) ==
    IF ptr > Len(str)
    THEN n
    ELSE IF ~isdigit(str[ptr])
         THEN n
         ELSE CountDigits(str, ptr + 1, n + 1)

\* mutant: the count is returned without the minimum
iniGetFloatPrec_NoFloor(str) ==
    LET point == FindPoint(str, 1)
    IN  IF point = 0
        THEN INIFILE_MIN_FLOAT_PRECISION
        ELSE CountDigits(str, point + 1, 0)

iniGetFloatPrec(str) ==
    LET point == FindPoint(str, 1)
    IN  IF point = 0
        THEN INIFILE_MIN_FLOAT_PRECISION
        ELSE LET n == CountDigits(str, point + 1, 0)
             IN  IF n > INIFILE_MIN_FLOAT_PRECISION
                 THEN n
                 ELSE INIFILE_MIN_FLOAT_PRECISION

\* what sprintf writes for %d
RECURSIVE Decimal(_)
Decimal(n) ==
    LET digit(d) == <<"0", "1", "2", "3", "4", "5", "6", "7", "8", "9">>[d + 1]
    IN  IF n < 10
        THEN <<digit(n)>>
        ELSE Decimal(n \div 10) \o <<digit(n % 10)>>

\* sprintf(fmt, "%s = %%.%df\n", var, iniGetFloatPrec(val))
iniFormatFloat(var, val) ==
    var \o <<" ", "=", " ", "%", ".">> \o Decimal(iniGetFloatPrec(val))
        \o <<"f", "\n">>

\* mutant: the second field is written with the minimum precision
iniFormatFloat2_SecondMin(var, val) ==
    var \o <<" ", "=", " ", "%", ".">> \o Decimal(iniGetFloatPrec(val))
        \o <<"f", " ", "%", ".">> \o Decimal(INIFILE_MIN_FLOAT_PRECISION)
        \o <<"f", "\n">>

\* prec = iniGetFloatPrec(val);
\* sprintf(fmt, "%s = %%.%df %%.%df\n", var, prec, prec)
iniFormatFloat2(var, val) ==
    LET p == iniGetFloatPrec(val)
    IN  var \o <<" ", "=", " ", "%", ".">> \o Decimal(p)
            \o <<"f", " ", "%", ".">> \o Decimal(p) \o <<"f", "\n">>

\* no call of iniJoint is under way
LoaderIdle ==
    /\ pc = "idle"
    /\ joint = 0
    /\ errMask = {}
    /\ ini = [t \in Tags |-> Unread]
    /\ axes = <<>>
    /\ loc = <<>>
    /\ trace = <<>>
    /\ ljResult = <<>>
    /\ result = <<>>
    /\ prev = <<>>

InitFmt ==
    /\ LoaderIdle
    /\ fn = "none"
    /\ fvar \in VarNames
    /\ fval \in Literals
    /\ prec = <<>>
    /\ fmt = <<>>

loaderVars ==
    <<pc, joint, errMask, ini, axes, loc, trace, ljResult, result, prev>>

Call_iniGetFloatPrec ==
    /\ fn = "none"
    /\ fn' = "iniGetFloatPrec"
    /\ prec' = <<iniGetFloatPrec(fval)>>
    /\ UNCHANGED <<fvar, fval, fmt, loaderVars>>

Call_iniFormatFloat ==
    /\ fn = "none"
    /\ fn' = "iniFormatFloat"
    /\ fmt' = iniFormatFloat(fvar, fval)
    /\ UNCHANGED <<fvar, fval, prec, loaderVars>>

Call_iniFormatFloat2 ==
    /\ fn = "none"
    /\ fn' = "iniFormatFloat2"
    /\ fmt' = iniFormatFloat2(fvar, fval)
    /\ UNCHANGED <<fvar, fval, prec, loaderVars>>

NextFmt ==
    \/ Call_iniGetFloatPrec
    \/ Call_iniFormatFloat
    \/ Call_iniFormatFloat2

SpecFmt == InitFmt /\ [][NextFmt]_vars

-----------------------------------------------------------------------------
(* C12 *)

HasPoint(s) == \E i \in 1..Len(s) : s[i] = "."

\* the position of the first decimal point of s
FirstPointOf(s) ==
    CHOOSE i \in 1..Len(s) : s[i] = "." /\ \A k \in 1..(i - 1) : s[k] # "."

\* the length of the run of decimal digits right after the first point
DigitRun(s) ==
    LET p == FirstPointOf(s)
    IN  CHOOSE n \in 0..(Len(s) - p) :
            /\ \A k \in 1..n : isdigit(s[p + k])
            /\ p + n = Len(s) \/ ~isdigit(s[p + n + 1])

ExpectedPrec(s) ==
    IF ~HasPoint(s)
    THEN 3
    ELSE IF DigitRun(s) > 3 THEN DigitRun(s) ELSE 3

\* C12: iniGetFloatPrec returns 3 for a literal without a decimal point, the
\* empty string included, and otherwise the larger of 3 and the length of
\* the run of decimal digits right after the first point; "1.2345" gives 4,
\* "7" gives 3, "0.12" gives 3, "" gives 3, and the result is never below 3.
C12_PrecisionInferred ==
    fn = "iniGetFloatPrec" =>
        /\ prec = <<ExpectedPrec(fval)>>
        /\ prec[1] >= 3
        /\ fval = Lit_1_2345 => prec = <<4>>
        /\ fval = Lit_7 => prec = <<3>>
        /\ fval = Lit_0_12 => prec = <<3>>
        /\ fval = <<>> => prec = <<3>>

\* iniGetFloatPrec("1.2345") returned 4
C12_Witness ==
    /\ fn = "iniGetFloatPrec"
    /\ fval = Lit_1_2345
    /\ prec = <<4>>

-----------------------------------------------------------------------------
(* C13 *)

\* iniFormatFloat2("BAR", "1.23 9.1") was called
Format2Example ==
    /\ fn = "iniFormatFloat2"
    /\ fvar = BAR
    /\ fval = Lit_1_23_9_1

\* C13 as stated: iniFormatFloat2("BAR", "1.23 9.1") writes
\* "BAR = %.4f %.4f\n".
C13_Format2ExampleFour ==
    Format2Example =>
        fmt = <<"B", "A", "R", " ", "=", " ", "%", ".", "4", "f", " ",
                "%", ".", "4", "f", "\n">>

\* C13 amended: iniFormatFloat2("BAR", "1.23 9.1") writes
\* "BAR = %.3f %.3f\n": the two digits after the first point are below the
\* minimum precision 3.
C13_Format2ExampleThree ==
    Format2Example =>
        fmt = <<"B", "A", "R", " ", "=", " ", "%", ".", "3", "f", " ",
                "%", ".", "3", "f", "\n">>

\* iniFormatFloat2("BAR", "1.23 9.1") has written its format
C13_Witness ==
    /\ Format2Example
    /\ Len(fmt) = 16

-----------------------------------------------------------------------------
(* C14 *)

\* the character of a precision below 10
PrecChar(p) == <<"0", "1", "2", "3", "4", "5", "6", "7", "8", "9">>[p + 1]

\* C14: iniFormatFloat writes "<var> = %.<p>f\n" and iniFormatFloat2 writes
\* "<var> = %.<p>f %.<p>f\n" with p the precision of the literal: the same p
\* in both fields, taken from the digits after the first decimal point only,
\* whatever the digits of the second number ("1.2 9.12345" gives 3 twice);
\* iniFormatFloat("FOO", "1.2345") writes "FOO = %.4f\n".
C14_FormatsUsePrecision ==
    LET p == PrecChar(ExpectedPrec(fval))
    IN  /\ fn = "iniFormatFloat" =>
              fmt = fvar \o <<" ", "=", " ", "%", ".", p, "f", "\n">>
        /\ fn = "iniFormatFloat2" =>
              fmt = fvar \o <<" ", "=", " ", "%", ".", p, "f", " ",
                              "%", ".", p, "f", "\n">>
        /\ (fn = "iniFormatFloat2" /\ fval = Lit_1_2_9_12345) =>
              fmt = fvar \o <<" ", "=", " ", "%", ".", "3", "f", " ",
                              "%", ".", "3", "f", "\n">>
        /\ (fn = "iniFormatFloat" /\ fvar = FOO /\ fval = Lit_1_2345) =>
              fmt = <<"F", "O", "O", " ", "=", " ", "%", ".", "4", "f", "\n">>

\* iniFormatFloat2("FOO", "1.2345") has written "FOO = %.4f %.4f\n"
C14_Witness ==
    /\ fn = "iniFormatFloat2"
    /\ fvar = FOO
    /\ fval = Lit_1_2345
    /\ fmt = <<"F", "O", "O", " ", "=", " ", "%", ".", "4", "f", " ",
               "%", ".", "4", "f", "\n">>

-----------------------------------------------------------------------------
(* Two calls of iniJoint with the same joint on the same document *)

\* second calls are explored for documents with at most this many keys
\* present in the joint's section
MaxPresentAgain == 1

\* iniJoint is called again: jointIniFile is constructed anew and the local
\* variables of iniJoint and loadJoint are new, unassigned ones; the document
\* is the one the first call read
iniJoint_Again ==
    /\ pc = "done"
    /\ prev = <<>>
    /\ NumPresent <= MaxPresentAgain
    /\ prev' = <<[trace |-> trace, result |-> result]>>
    /\ pc' = "Open"
    /\ errMask' = ERR_ALL
    /\ axes' = <<>>
    /\ loc' = <<>>
    /\ trace' = <<>>
    /\ ljResult' = <<>>
    /\ result' = <<>>
    /\ UNCHANGED <<fmtVars, joint, ini>>

NextTwice ==
    \/ Next
    \/ iniJoint_Again

SpecTwice == Init /\ [][NextTwice]_vars

-----------------------------------------------------------------------------
(* C19 *)

====
